---- MODULE Spec2Model ----
(***************************************************************************)
(* A model of src/src/scanner.es6: the regex kit and the Lexer             *)
(* (Token.tokensInSegment, Token.tokensInTemplate), the Packrat substrate   *)
(* (Packratter.run, Packratter.lastFailures) and the Scanner's terminal     *)
(* rules (skip, rule_SKIP, eat, ...).                                       *)
(*                                                                         *)
(* Text is a sequence of one-character strings.  Offsets into a segment    *)
(* and positions in the token stream are 0-based, as in the source; the    *)
(* operators At and Slice convert to TLA+'s 1-based sequences.             *)
(***************************************************************************)
EXTENDS Integers, Sequences, FiniteSets, TLC

VARIABLES
  template,   \* Scanner.template.raw: the sequence of raw segments
  segnum,     \* tokensInTemplate: the loop variable
  toks,       \* tokensInTemplate: result / Scanner.toks
  lexed,      \* what tokensInSegment did with each segment handled so far
  phase,      \* "lexing", "ready" (constructed), "raised" (constructor threw)
  memo,       \* Packratter._memo, a function on the (pos, ruleOrPatt) pairs set
  counts,     \* Packratter._counts
  grammar,    \* the rule-set of the parser: rule name -> body
  stack,      \* the calls of run in progress and the rule bodies under way
  ctl,        \* what the interpreter does next: call, return, idle, raised
  invoked,    \* history: how often run invoked the rule or eat, per memo key
  calls,      \* history: the number of top-level calls made so far
  last,       \* history: the last completed top-level call and its outcome
  keywords,   \* Scanner.keywords
  raised      \* history: a call on this parser has raised an error

vars == <<template, segnum, toks, lexed, phase, memo, counts,
          grammar, stack, ctl, invoked, calls, last, keywords, raised>>

(***************************************************************************)
(* Bounds of the model.                                                    *)
(***************************************************************************)
\* Most characters of a template, all its segments together (lexer).
MaxTplLen == 3
\* Most segments of a template (lexer).
MaxSegs == 2
\* Most calls made from outside on one parser instance.
MaxCalls == 2

(***************************************************************************)
(* Characters.  The classes are those of the regular expressions of        *)
(* scanner.es6 lines 14-25.                                                *)
(***************************************************************************)
NL == "\n"
QUOTE == "\""
BACKSLASH == "\\"

Digits == {"0", "1", "2", "3", "4", "5", "6", "7", "8", "9"}
Letters ==
  {"a", "b", "c", "d", "e", "f", "g", "h", "i", "j", "k", "l", "m",
   "n", "o", "p", "q", "r", "s", "t", "u", "v", "w", "x", "y", "z",
   "A", "B", "C", "D", "E", "F", "G", "H", "I", "J", "K", "L", "M",
   "N", "O", "P", "Q", "R", "S", "T", "U", "V", "W", "X", "Y", "Z"}
HexDigits == Digits \cup {"a", "b", "c", "d", "e", "f", "A", "B", "C", "D", "E", "F"}
\* \s
SpaceChars == {" ", NL, "\t", "\r"}
\* . (any character but a line terminator)
LineTerminators == {NL, "\r"}
\* [a-zA-Z_\$] and [\w\$]
IdentStartChars == Letters \cup {"_", "$"}
IdentChars == Letters \cup Digits \cup {"_", "$"}
\* SINGLE_OP and MULTI_OP
SingleOpChars == {"[", "]", "(", ")", "{", "}", ",", ";"}
MultiOpChars == {":", "~", "@", "%", "&", "+", "=", "*", "<", ">", ".", "?",
                 "|", BACKSLASH, "-", "^", "/"}
\* the characters after a backslash in CHAR_RE, \u apart
EscapeChars == {QUOTE, BACKSLASH, "/", "b", "f", "n", "r", "t"}

\* s[i] and s.slice(i), s.slice(i, j) with 0-based offsets
At(s, i) == s[i + 1]
Slice(s, i, j) == SubSeq(s, i + 1, j)
Min(a, b) == IF a < b THEN a ELSE b
Max(a, b) == IF a > b THEN a ELSE b

(***************************************************************************)
(* The regex kit.  A matcher XEnd(s, i) gives the offset after the match   *)
(* of the regular expression X that starts at offset i of s, or -1 when X  *)
(* does not match there.  Every X below has at most one match length that  *)
(* a backtracking engine can end with, its greedy one.                     *)
(***************************************************************************)
NoMatch == -1

\* the offset after the longest run of characters of class C from offset i
RECURSIVE RunEnd(_, _, _)
RunEnd(s, i, C) ==
  IF i < Len(s) /\ At(s, i) \in C THEN RunEnd(s, i + 1, C) ELSE i

\* SPACE_RE  \s+
SpaceEnd(s, i) ==
  LET j == RunEnd(s, i, SpaceChars) IN IF j > i THEN j ELSE NoMatch

\* NUMBER_RE  -?\d+(?:\.\d+)?(?:[eE]-?\d+)?
NumberEnd(s, i) ==
  LET a == IF i < Len(s) /\ At(s, i) = "-" THEN i + 1 ELSE i
      d == RunEnd(s, a, Digits)
      fd == IF d < Len(s) /\ At(s, d) = "." THEN RunEnd(s, d + 1, Digits) ELSE d
      f == IF fd > d + 1 THEN fd ELSE d
      g == IF f < Len(s) /\ At(s, f) \in {"e", "E"}
             THEN (IF f + 1 < Len(s) /\ At(s, f + 1) = "-" THEN f + 2 ELSE f + 1)
             ELSE f
      h == IF g > f THEN RunEnd(s, g, Digits) ELSE f
  IN IF d = a THEN NoMatch ELSE IF h > g THEN h ELSE f

\* UCODE_RE  \\u[\da-fA-F]{4}
UcodeEnd(s, i) ==
  IF /\ i + 6 <= Len(s)
     /\ At(s, i) = BACKSLASH
     /\ At(s, i + 1) = "u"
     /\ \A k \in 2..5 : At(s, i + k) \in HexDigits
    THEN i + 6 ELSE NoMatch

\* CHAR_RE  [^\"\\]|\\"|\\\\|\\\/|\\b|\\f|\\n|\\r|\\t|UCODE_RE
CharEnd(s, i) ==
  IF i >= Len(s) THEN NoMatch
  ELSE IF At(s, i) \notin {QUOTE, BACKSLASH} THEN i + 1
  ELSE IF At(s, i) = QUOTE THEN NoMatch
  ELSE IF i + 1 < Len(s) /\ At(s, i + 1) \in EscapeChars THEN i + 2
  ELSE UcodeEnd(s, i)

\* CHAR_RE* followed by the closing quote: no CHAR_RE alternative starts
\* with a quote, so the first quote met ends the string
RECURSIVE StringTailEnd(_, _)
StringTailEnd(s, i) ==
  IF i >= Len(s) THEN NoMatch
  ELSE IF At(s, i) = QUOTE THEN i + 1
  ELSE LET j == CharEnd(s, i) IN
       IF j = NoMatch THEN NoMatch ELSE StringTailEnd(s, j)

\* STRING_RE  \"CHAR_RE*\"
StringEnd(s, i) ==
  IF i < Len(s) /\ At(s, i) = QUOTE THEN StringTailEnd(s, i + 1) ELSE NoMatch

\* IDENT_RE  [a-zA-Z_\$][\w\$]*
IdentEnd(s, i) ==
  IF i < Len(s) /\ At(s, i) \in IdentStartChars
    THEN RunEnd(s, i + 1, IdentChars) ELSE NoMatch

\* SINGLE_OP  [\[\]\(\){},;]
SingleOpEnd(s, i) ==
  IF i < Len(s) /\ At(s, i) \in SingleOpChars THEN i + 1 ELSE NoMatch

\* MULTI_OP  [:~@%&+=*<>.?|\\\-\^\/]+
MultiOpEnd(s, i) ==
  LET j == RunEnd(s, i, MultiOpChars) IN IF j > i THEN j ELSE NoMatch

\* the offset of the first line terminator at or after i (Len(s) if none)
RECURSIVE LineEnd(_, _)
LineEnd(s, i) ==
  IF i < Len(s) /\ At(s, i) \notin LineTerminators THEN LineEnd(s, i + 1) ELSE i

\* LINE_COMMENT_RE  #.*\n
LineCommentEnd(s, i) ==
  IF i < Len(s) /\ At(s, i) = "#"
    THEN LET j == LineEnd(s, i + 1) IN
         IF j < Len(s) /\ At(s, j) = NL THEN j + 1 ELSE NoMatch
    ELSE NoMatch

\* The regular expressions by name.
REs == {"SPACE_RE", "NUMBER_RE", "STRING_RE", "IDENT_RE", "SINGLE_OP",
        "MULTI_OP", "LINE_COMMENT_RE"}

MatchEnd(RE, s, i) ==
  CASE RE = "SPACE_RE" -> SpaceEnd(s, i)
    [] RE = "NUMBER_RE" -> NumberEnd(s, i)
    [] RE = "STRING_RE" -> StringEnd(s, i)
    [] RE = "IDENT_RE" -> IdentEnd(s, i)
    [] RE = "SINGLE_OP" -> SingleOpEnd(s, i)
    [] RE = "MULTI_OP" -> MultiOpEnd(s, i)
    [] RE = "LINE_COMMENT_RE" -> LineCommentEnd(s, i)

\* allRE(RE).test(text): ^RE$ matches the whole of text
allRE(RE, text) == MatchEnd(RE, text, 0) = Len(text)

\* TOKEN_RE = captureRE(anyRE(...)): the alternatives in the order of the
\* source; the first that matches at i wins.
TokenAlternatives ==
  <<"SPACE_RE", "NUMBER_RE", "STRING_RE", "IDENT_RE", "SINGLE_OP", "MULTI_OP",
    "LINE_COMMENT_RE">>

RECURSIVE AnyREFrom(_, _, _)
AnyREFrom(k, s, i) ==
  IF k > Len(TokenAlternatives) THEN NoMatch
  ELSE LET e == MatchEnd(TokenAlternatives[k], s, i) IN
       IF e # NoMatch THEN e ELSE AnyREFrom(k + 1, s, i)

TOKEN_RE(s, i) == AnyREFrom(1, s, i)

\* the alternative of TOKEN_RE that matches at offset i ("" if none)
RECURSIVE TokenKindFrom(_, _, _)
TokenKindFrom(k, s, i) ==
  IF k > Len(TokenAlternatives) THEN ""
  ELSE IF MatchEnd(TokenAlternatives[k], s, i) # NoMatch THEN TokenAlternatives[k]
  ELSE TokenKindFrom(k + 1, s, i)

(***************************************************************************)
(* The token model and the Lexer.                                          *)
(***************************************************************************)
Pos(segmentNum, start, after) ==
  [segmentNum |-> segmentNum, start |-> start, after |-> after]

\* An element of the token stream is a Token or a bare hole number;
\* "type" is what typeof tells apart.
Token(text, pos) == [type |-> "Token", text |-> text, pos |-> pos]
HoleNumber(k) == [type |-> "number", num |-> k]

\* What exec returns and leaves in RE.lastIndex: arr is FALSE for null (and
\* lastIndex is then reset to 0), else text is arr[1], the captured lexeme,
\* which spans from index to end.
ExecResult(segment, index, end) ==
  IF end = NoMatch
    THEN [arr |-> FALSE, text |-> <<>>, lastIndex |-> 0]
    ELSE [arr |-> TRUE, text |-> Slice(segment, index, end), lastIndex |-> end]

\* RE.exec(segment) of the sticky RE at RE.lastIndex, on a platform with the
\* 'y' flag: the match must start at lastIndex; a failed match resets
\* lastIndex to 0.
NativeStickyExec(segment, lastIndex) ==
  ExecResult(segment, lastIndex, TOKEN_RE(segment, lastIndex))

\* superExec of the 'g' variant: the leftmost match of TOKEN_RE at or after
\* offset i, as its index and end (end is -1 if there is none).
RECURSIVE SearchFrom(_, _)
SearchFound(segment, i, end) ==
  IF end # NoMatch THEN [index |-> i, end |-> end]
  ELSE IF i >= Len(segment) THEN [index |-> i, end |-> NoMatch]
  ELSE SearchFrom(segment, i + 1)
SearchFrom(segment, i) == SearchFound(segment, i, TOKEN_RE(segment, i))

\* stickyExec of stickyREShim: a match that does not start at lastIndex is
\* rejected and lastIndex reset to 0, as it is when nothing is found.
ShimResult(segment, start, found) ==
  IF found.end = NoMatch THEN ExecResult(segment, start, NoMatch)
  ELSE IF found.index # start THEN [arr |-> FALSE, text |-> <<>>, lastIndex |-> 0]
  ELSE ExecResult(segment, found.index, found.end)

StickyExecShim(segment, lastIndex) ==
  ShimResult(segment, lastIndex, SearchFrom(segment, lastIndex))

\* stickyRE(RE).exec: native is TRUE where the platform has the 'y' flag
stickyRE(native, segment, lastIndex) ==
  IF native THEN NativeStickyExec(segment, lastIndex)
            ELSE StickyExecShim(segment, lastIndex)

\* What tokensInSegment reports with "Unexpected: badTok", built from
\* RE.lastIndex as exec left it.
BadTok(segmentNum, segment, lastIndex) ==
  Token(Slice(segment, lastIndex, Len(segment)),
        Pos(segmentNum, lastIndex, Len(segment)))

\* The outcome of tokensInSegment: the result, or what was thrown; failedAt
\* records the offset at which exec was tried and failed.
SegmentOutcome(thrown, result, badTok, failedAt) ==
  [thrown |-> thrown, result |-> result, badTok |-> badTok, failedAt |-> failedAt]

\* The while loop of tokensInSegment; x is what exec returned.
RECURSIVE SegmentLoop(_, _, _, _, _, _)
SegmentBody(native, segmentNum, segment, lastIndex, expectedIndex, result, x) ==
  IF ~x.arr
    THEN SegmentOutcome("SyntaxError", result,
                        BadTok(segmentNum, segment, x.lastIndex), lastIndex)
    ELSE IF expectedIndex # x.lastIndex - Len(x.text)
      THEN SegmentOutcome("Error", result,
             Token(x.text, Pos(segmentNum, x.lastIndex - Len(x.text), x.lastIndex)),
             lastIndex)
      ELSE SegmentLoop(native, segmentNum, segment, x.lastIndex, x.lastIndex,
             Append(result,
               Token(x.text, Pos(segmentNum, x.lastIndex - Len(x.text), x.lastIndex))))

\* Mutant of SegmentLoop: the loop stops one character early.
SegmentLoopStopsEarly(native, segmentNum, segment, lastIndex, expectedIndex, result) ==
  IF ~(lastIndex < Len(segment) - 1)
    THEN SegmentOutcome("", result, Token(<<>>, Pos(0, 0, 0)), 0)
    ELSE SegmentBody(native, segmentNum, segment, lastIndex, expectedIndex, result,
                     stickyRE(native, segment, lastIndex))

SegmentLoop(native, segmentNum, segment, lastIndex, expectedIndex, result) ==
  IF ~(lastIndex < Len(segment))
    THEN SegmentOutcome("", result, Token(<<>>, Pos(0, 0, 0)), 0)
    ELSE SegmentBody(native, segmentNum, segment, lastIndex, expectedIndex, result,
                     stickyRE(native, segment, lastIndex))

tokensInSegment(native, segmentNum, segment) ==
  SegmentLoop(native, segmentNum, segment, 0, 0, <<>>)

\* One iteration of the for loop of tokensInTemplate: the tokens r.result of
\* segment segNum pushed onto result, then the bare hole number if a segment
\* follows.
\* Mutant of TemplatePush: the hole number is pushed after the last segment
\* too.
TemplatePushAlways(tpl, segNum, result, r) ==
  [thrown |-> r.thrown,
   seg |-> r,
   result |-> IF r.thrown # "" THEN result
              ELSE (result \o r.result) \o <<HoleNumber(segNum)>>]

\* Mutant of TemplatePush: the hole number is pushed before the segment's
\* tokens.
TemplatePushHoleFirst(tpl, segNum, result, r) ==
  [thrown |-> r.thrown,
   seg |-> r,
   result |-> IF r.thrown # "" THEN result
              ELSE IF segNum < Len(tpl) - 1
                THEN (result \o <<HoleNumber(segNum)>>) \o r.result
                ELSE result \o r.result]

TemplatePush(tpl, segNum, result, r) ==
  [thrown |-> r.thrown,
   seg |-> r,
   result |-> IF r.thrown # "" THEN result
              ELSE IF segNum < Len(tpl) - 1
                THEN (result \o r.result) \o <<HoleNumber(segNum)>>
                ELSE result \o r.result]

TemplateStep(native, tpl, segNum, result) ==
  TemplatePush(tpl, segNum, result, tokensInSegment(native, segNum, tpl[segNum + 1]))

\* tokensInTemplate(template, TOKEN_RE) as a whole, for the Scanner's
\* constructor: thrown is "" and result the stream, or thrown is the error.
RECURSIVE TemplateLoop(_, _, _, _)
TemplateNext(native, tpl, segNum, st) ==
  IF st.thrown # "" THEN st ELSE TemplateLoop(native, tpl, segNum + 1, st.result)

TemplateLoop(native, tpl, segNum, result) ==
  IF segNum > Len(tpl) - 1
    THEN [thrown |-> "", seg |-> SegmentOutcome("", <<>>, Token(<<>>, Pos(0, 0, 0)), 0),
          result |-> result]
    ELSE TemplateNext(native, tpl, segNum, TemplateStep(native, tpl, segNum, result))

tokensInTemplate(native, tpl) == TemplateLoop(native, tpl, 0, <<>>)

(***************************************************************************)
(* Templates of the model: a text of at most maxLen characters cut into    *)
(* at most maxSegs segments.                                               *)
(***************************************************************************)
\* the characters the lexer's templates are written in
LexChars == {" ", NL, "a", "1", "-", "#", QUOTE, "!"}

RECURSIVE CutAt(_, _, _, _)
CutAt(w, cuts, j, from) ==
  IF j > Len(cuts) THEN <<SubSeq(w, from + 1, Len(w))>>
  ELSE <<SubSeq(w, from + 1, cuts[j])>> \o CutAt(w, cuts, j + 1, cuts[j])

IsTemplateOf(tpl, chars, maxLen, maxSegs) ==
  \E n \in 0..maxLen : \E w \in [1..n -> chars] :
    \E k \in 1..maxSegs : \E cuts \in [1..(k - 1) -> 0..n] :
      /\ \A j \in 1..(k - 2) : cuts[j] <= cuts[j + 1]
      /\ tpl = CutAt(SubSeq(w, 1, n), SubSeq(cuts, 1, k - 1), 1, 0)

(***************************************************************************)
(* Rule identities, values and results.                                    *)
(***************************************************************************)
\* ruleOrPatt, the inner key of the memo: a rule procedure (type
\* "function", by name), a literal string (type "string", by its text), a
\* regular expression (type "regex", by name) or undefined.
FunctionKey(name) == [type |-> "function", name |-> name, text |-> <<>>]
StringKey(text) == [type |-> "string", name |-> "", text |-> text]
RegexKey(name) == [type |-> "regex", name |-> name, text |-> <<>>]
UndefinedKey == [type |-> "undefined", name |-> "", text |-> <<>>]
NoKey == [type |-> "none", name |-> "", text |-> <<>>]

\* The values of results: the sentinels FAIL and EOF, a string, a hole
\* number, an array of values.
FAIL == [t |-> "FAIL", text |-> <<>>, num |-> 0, items |-> <<>>]
EOF == [t |-> "EOF", text |-> <<>>, num |-> 0, items |-> <<>>]
Str(text) == [t |-> "string", text |-> text, num |-> 0, items |-> <<>>]
Num(k) == [t |-> "number", text |-> <<>>, num |-> k, items |-> <<>>]
Arr(items) == [t |-> "array", text |-> <<>>, num |-> 0, items |-> items]
NoValue == [t |-> "none", text |-> <<>>, num |-> 0, items |-> <<>>]

\* A memo entry: the LEFT_RECUR sentinel or a result [newPos, value].
LEFT_RECUR == [lr |-> TRUE, newPos |-> 0, value |-> NoValue]
Result(newPos, value) == [lr |-> FALSE, newPos |-> newPos, value |-> value]

\* The outcome of a call on the parser: what it returned or threw, and the
\* memo, the counters and the invocation history as it leaves them.
Ret(M, newPos, value) ==
  [thrown |-> "", pos |-> newPos, value |-> value,
   memo |-> M.memo, counts |-> M.counts, invoked |-> M.invoked]
Throw(M, error) ==
  [thrown |-> error, pos |-> 0, value |-> NoValue,
   memo |-> M.memo, counts |-> M.counts, invoked |-> M.invoked]

\* The parser right after construction: new Map(), {hits: 0, misses: 0}.
NoCall == [op |-> "none", key |-> NoKey, pos |-> 0, thrown |-> "", newPos |-> 0,
           value |-> NoValue]
Idle == [op |-> "idle"]

FreshPackratter ==
  /\ memo = <<>>
  /\ counts = [hits |-> 0, misses |-> 0]
  /\ stack = <<>>
  /\ ctl = Idle
  /\ invoked = <<>>
  /\ calls = 0
  /\ last = NoCall
  /\ raised = FALSE

(***************************************************************************)
(* Packratter.run, in the pieces its callers share.                        *)
(***************************************************************************)
\* Mutant of RunLookup: a stored FAIL is taken for no entry at all.
RunLookupForgetsFail(m, key, pos) ==
  IF <<pos, key>> \notin DOMAIN m THEN "miss"
  ELSE IF m[<<pos, key>>].lr THEN "left_recur"
  ELSE IF m[<<pos, key>>].value = FAIL THEN "miss"
  ELSE "hit"

\* Mutant of RunLookup: the LEFT_RECUR probe is taken for no entry at all.
RunLookupIgnoresProbe(m, key, pos) ==
  IF <<pos, key>> \notin DOMAIN m THEN "miss"
  ELSE IF m[<<pos, key>>].lr THEN "miss"
  ELSE "hit"

\* posm.get(ruleOrPatt) and the tests on it: "miss", "left_recur" or "hit"
RunLookup(m, key, pos) ==
  IF <<pos, key>> \notin DOMAIN m THEN "miss"
  ELSE IF m[<<pos, key>>].lr THEN "left_recur"
  ELSE "hit"

\* posm.set(ruleOrPatt, entry)
MemoSet(m, key, pos, entry) ==
  [pk \in DOMAIN m \cup {<<pos, key>>} |->
     IF pk = <<pos, key>> THEN entry ELSE m[pk]]

\* history: one more invocation of the rule or of eat for (pos, key)
Invoke(inv, key, pos) ==
  [pk \in DOMAIN inv \cup {<<pos, key>>} |->
     IF pk = <<pos, key>>
       THEN (IF pk \in DOMAIN inv THEN inv[pk] + 1 ELSE 1)
       ELSE inv[pk]]

\* the hit branch: this._counts.hits++; return result
RunHit(M, key, pos) ==
  [thrown |-> "", pos |-> M.memo[<<pos, key>>].newPos,
   value |-> M.memo[<<pos, key>>].value,
   memo |-> M.memo,
   counts |-> [M.counts EXCEPT !.hits = @ + 1],
   invoked |-> M.invoked]

\* the miss branch up to the invocation: the probe, this._counts.misses++
RunProbe(M, key, pos) ==
  [memo |-> MemoSet(M.memo, key, pos, LEFT_RECUR),
   counts |-> [M.counts EXCEPT !.misses = @ + 1],
   invoked |-> M.invoked]

\* Mutant of RunStore: the result is returned and the probe left as it is.
RunStoreKeepsProbe(R, key, pos) == R

\* Mutant of RunStore: the result is stored with the position of the call.
RunStoreAtCall(R, key, pos) ==
  IF R.thrown # "" THEN R
  ELSE [R EXCEPT !.memo = MemoSet(R.memo, key, pos, Result(pos, R.value))]

\* the miss branch after the invocation returned R: posm.set(ruleOrPatt,
\* result); a throw passes through run
RunStore(R, key, pos) ==
  IF R.thrown # "" THEN R
  ELSE [R EXCEPT !.memo = MemoSet(R.memo, key, pos, Result(R.pos, R.value))]

(***************************************************************************)
(* The Scanner's terminal rules.  ts is this.toks.                         *)
(***************************************************************************)
\* Mutant of skip: a failing skip moves on by one element all the same.
skipAdvancesOnFail(ts, pos, RE) ==
  IF /\ pos < Len(ts)
     /\ At(ts, pos).type # "number"
     /\ allRE(RE, At(ts, pos).text)
    THEN [pos |-> pos + 1, value |-> Str(<<>>)]
    ELSE [pos |-> pos + 1, value |-> FAIL]

\* skip(pos, RE)
skip(ts, pos, RE) ==
  IF /\ pos < Len(ts)
     /\ At(ts, pos).type # "number"
     /\ allRE(RE, At(ts, pos).text)
    THEN [pos |-> pos + 1, value |-> Str(<<>>)]
    ELSE [pos |-> pos, value |-> FAIL]

rule_SPACE(ts, pos) == skip(ts, pos, "SPACE_RE")
rule_COMMENT(ts, pos) == skip(ts, pos, "LINE_COMMENT_RE")

\* the result pair of a rule that touches no memo, as an outcome
RetPair(M, pair) == Ret(M, pair.pos, pair.value)

\* this.run(this.rule_COMMENT, pos, 'COMMENT')
RunComment(M, ts, pos) ==
  CASE RunLookup(M.memo, FunctionKey("rule_COMMENT"), pos) = "hit" ->
         RunHit(M, FunctionKey("rule_COMMENT"), pos)
    [] RunLookup(M.memo, FunctionKey("rule_COMMENT"), pos) = "left_recur" ->
         Throw(M, "Left recursion on rule: COMMENT")
    [] OTHER ->
         RunStore(RetPair([RunProbe(M, FunctionKey("rule_COMMENT"), pos)
                             EXCEPT !.invoked =
                               Invoke(@, FunctionKey("rule_COMMENT"), pos)],
                          rule_COMMENT(ts, pos)),
                  FunctionKey("rule_COMMENT"), pos)

\* rule_SKIP(pos): the while loop; c is what run returned for COMMENT
RECURSIVE SkipLoop(_, _, _)
\* Mutant of SkipComment: the loop ends after a comment instead of going on.
SkipCommentEndsLoop(ts, pos, c) ==
  IF c.thrown # "" THEN c
  ELSE IF c.value # FAIL THEN Ret(c, c.pos, Str(<<>>))
  ELSE Ret(c, pos, Str(<<>>))

SkipComment(ts, pos, c) ==
  IF c.thrown # "" THEN c
  ELSE IF c.value # FAIL THEN SkipLoop(c, ts, c.pos)
  ELSE Ret(c, pos, Str(<<>>))

SkipSpace(M, ts, pos, pair) ==
  IF pair.value # FAIL THEN SkipLoop(M, ts, pair.pos)
  ELSE SkipComment(ts, pos, RunComment(M, ts, pos))

SkipLoop(M, ts, pos) ==
  IF pos < Len(ts) /\ At(ts, pos).type # "number"
    THEN SkipSpace(M, ts, pos, rule_SPACE(ts, pos))
    ELSE Ret(M, pos, Str(<<>>))

rule_SKIP(M, ts, pos) == SkipLoop(M, ts, pos)

\* allRE(patt).test(text) for the patt eat is given: a regular expression,
\* or a literal string, which re quotes so that it matches itself only
QuotedAllRE(literal, text) == literal = text

PattAllRE(patt, text) ==
  IF patt.type = "regex" THEN allRE(patt.name, text)
  ELSE QuotedAllRE(patt.text, text)

\* eat(pos, patt) after [pos] = this.rule_SKIP(pos), s being what rule_SKIP
\* returned
EatAt(ts, patt, s) ==
  IF s.thrown # "" THEN s
  ELSE IF /\ s.pos < Len(ts)
          /\ At(ts, s.pos).type # "number"
          /\ \/ (patt.type = "string" /\ patt.text = At(ts, s.pos).text)
             \/ PattAllRE(patt, At(ts, s.pos).text)
    THEN Ret(s, s.pos + 1, Str(At(ts, s.pos).text))
    ELSE Ret(s, s.pos, FAIL)

\* Mutant of eat: the token at pos is tested without skipping first.
eatWithoutSkip(M, ts, pos, patt) == EatAt(ts, patt, Ret(M, pos, Str(<<>>)))

eat(M, ts, pos, patt) == EatAt(ts, patt, rule_SKIP(M, ts, pos))

(***************************************************************************)
(* The Lexer's specification: Token.tokensInTemplate on every template of  *)
(* the bounds, one iteration of its loop at a time.                        *)
(***************************************************************************)
LexInit ==
  /\ IsTemplateOf(template, LexChars, MaxTplLen, MaxSegs)
  /\ segnum = 0
  /\ toks = <<>>
  /\ lexed = <<>>
  /\ phase = "lexing"
  /\ grammar = <<>>
  /\ keywords = {}
  /\ FreshPackratter

parserVars == <<memo, counts, grammar, stack, ctl, invoked, calls, last,
                keywords, raised>>

\* an iteration whose tokensInSegment returns
LexSegment ==
  /\ phase = "lexing"
  /\ segnum <= Len(template) - 1
  /\ \E native \in BOOLEAN :
       \E st \in {TemplateStep(native, template, segnum, toks)} :
         /\ st.thrown = ""
         /\ toks' = st.result
         /\ lexed' = Append(lexed, st.seg)
         /\ segnum' = segnum + 1
  /\ UNCHANGED <<template, phase>>
  /\ UNCHANGED parserVars

\* an iteration whose tokensInSegment throws: tokensInTemplate throws too
LexRaise ==
  /\ phase = "lexing"
  /\ segnum <= Len(template) - 1
  /\ \E native \in BOOLEAN :
       \E st \in {TemplateStep(native, template, segnum, toks)} :
         /\ st.thrown # ""
         /\ lexed' = Append(lexed, st.seg)
         /\ phase' = "raised"
  /\ UNCHANGED <<template, toks, segnum>>
  /\ UNCHANGED parserVars

\* the loop is over: tokensInTemplate returns result
LexReturn ==
  /\ phase = "lexing"
  /\ segnum > Len(template) - 1
  /\ phase' = "ready"
  /\ UNCHANGED <<template, toks, segnum, lexed>>
  /\ UNCHANGED parserVars

LexNext == LexSegment \/ LexRaise \/ LexReturn

SpecLex == LexInit /\ [][LexNext]_vars

(***************************************************************************)
(* The Scanner's specification: a Scanner constructed over a template that *)
(* lexes, and its terminal rules called directly, at any position of the   *)
(* stream, MaxCalls times.                                                 *)
(***************************************************************************)
\* the characters the Scanner's templates are written in
ScanChars == {NL, "a", "1", "#"}
\* the patterns eat is called with
EatPatts == {StringKey(<<"a">>), RegexKey("NUMBER_RE"), RegexKey("IDENT_RE")}

\* new Scanner(template): the constructor returns only if the template lexes
Constructed(chars, maxLen, maxSegs) ==
  /\ IsTemplateOf(template, chars, maxLen, maxSegs)
  /\ \E native \in BOOLEAN :
       \E t \in {tokensInTemplate(native, template)} :
         /\ t.thrown = ""
         /\ toks = t.result
  /\ segnum = Len(template)
  /\ lexed = <<>>
  /\ phase = "ready"
  /\ FreshPackratter

\* the constructor's tokenTypeList.forEach: the entries that are identifiers
KeywordsOf(tokenTypeList) == {tt \in tokenTypeList : allRE("IDENT_RE", tt)}

ScanInit ==
  /\ Constructed(ScanChars, MaxTplLen, MaxSegs)
  /\ grammar = <<>>
  /\ keywords = KeywordsOf({})

CurM == [memo |-> memo, counts |-> counts, invoked |-> invoked]

\* a call from outside that ran to its end: what it left and what it gave
Completed(op, key, pos, R) ==
  /\ memo' = R.memo
  /\ counts' = R.counts
  /\ invoked' = R.invoked
  /\ last' = [op |-> op, key |-> key, pos |-> pos, thrown |-> R.thrown,
              newPos |-> R.pos, value |-> R.value]
  /\ calls' = calls + 1
  /\ raised' = (raised \/ R.thrown # "")
  /\ UNCHANGED <<template, segnum, toks, lexed, phase, grammar, keywords,
                 stack, ctl>>

CallSkip ==
  /\ phase = "ready" /\ calls < MaxCalls
  /\ \E pos \in 0..Len(toks) :
       \E R \in {rule_SKIP(CurM, toks, pos)} :
         Completed("rule_SKIP", NoKey, pos, R)

CallEat ==
  /\ phase = "ready" /\ calls < MaxCalls
  /\ \E pos \in 0..Len(toks) : \E patt \in EatPatts :
       \E R \in {eat(CurM, toks, pos, patt)} :
         Completed("eat", patt, pos, R)

ScanNext == CallSkip \/ CallEat

SpecScan == ScanInit /\ [][ScanNext]_vars

(***************************************************************************)
(* The Lexer's properties.                                                 *)
(***************************************************************************)
IsHole(e) == e.type = "number"
IsToken(e) == e.type = "Token"
HoleIndexes(stream) == {i \in 1..Len(stream) : IsHole(stream[i])}
TokenIndexes(stream) == {i \in 1..Len(stream) : IsToken(stream[i])}

\* which alternative of TOKEN_RE lexes the text of a token
KindOf(tok) == TokenKindFrom(1, tok.text, 0)
IsSpaceOrComment(e) ==
  IsToken(e) /\ KindOf(e) \in {"SPACE_RE", "LINE_COMMENT_RE"}

RECURSIVE TokenCount(_, _)
TokenCount(segs, k) ==
  IF k > Len(segs) THEN 0 ELSE Len(segs[k].result) + TokenCount(segs, k + 1)

RECURSIVE ConcatText(_, _)
ConcatText(ts, k) ==
  IF k > Len(ts) THEN <<>> ELSE ts[k].text \o ConcatText(ts, k + 1)

C6_NoSpaceNextToHole ==
  phase = "ready" =>
    \A h \in HoleIndexes(toks) :
      /\ h > 1 => ~IsSpaceOrComment(toks[h - 1])
      /\ h < Len(toks) => ~IsSpaceOrComment(toks[h + 1])

\* C6, amended: the Lexer keeps whitespace and comment tokens, next to a hole
\* as anywhere else.  The element before hole marker k is the last token of
\* segment k, ending at that segment's end, whenever segment k is not empty,
\* and the element after it is the first token of segment k+1, starting at
\* offset 0, whenever that segment is not empty; either may be a whitespace
\* run or a line comment.
C6_HoleNeighbours ==
  phase = "ready" =>
    \A h \in HoleIndexes(toks) :
      LET k == toks[h].num IN
      /\ template[k + 1] # <<>> =>
           /\ h > 1
           /\ IsToken(toks[h - 1])
           /\ toks[h - 1].pos.segmentNum = k
           /\ toks[h - 1].pos.after = Len(template[k + 1])
      /\ template[k + 2] # <<>> =>
           /\ h < Len(toks)
           /\ IsToken(toks[h + 1])
           /\ toks[h + 1].pos.segmentNum = k + 1
           /\ toks[h + 1].pos.start = 0

C6_Witness ==
  /\ phase = "ready"
  /\ \E h \in HoleIndexes(toks) :
       /\ h > 1 /\ h < Len(toks)
       /\ KindOf(toks[h - 1]) = "LINE_COMMENT_RE"
       /\ KindOf(toks[h + 1]) = "SPACE_RE"

\* C7: the tokens that tokensInSegment returns tile the segment: the first
\* starts at offset 0, each starts where the one before ends, the last ends
\* at the segment's length, each carries the segment's number, and their
\* texts concatenated are the segment.
C7_TokensTileSegment ==
  \A k \in 1..Len(lexed) :
    lexed[k].thrown = "" =>
      LET ts == lexed[k].result IN
      /\ \A j \in 1..Len(ts) :
           /\ IsToken(ts[j])
           /\ ts[j].pos.segmentNum = k - 1
           /\ ts[j].pos.start = IF j = 1 THEN 0 ELSE ts[j - 1].pos.after
           /\ ts[j].text = Slice(template[k], ts[j].pos.start, ts[j].pos.after)
           /\ ts[j].text # <<>>
      /\ ts # <<>> => ts[Len(ts)].pos.after = Len(template[k])
      /\ ts = <<>> => template[k] = <<>>
      /\ ConcatText(ts, 1) = template[k]

C7_Witness ==
  \E k \in 1..Len(lexed) :
    /\ lexed[k].thrown = ""
    /\ Len(lexed[k].result) = 3
    /\ k = 2

\* C8, as claimed: when the token regex fails at offset i of a segment,
\* tokensInSegment raises a syntax error that reports the slice
\* segment[i..end] at Position (segmentNum, i, segment length).
C8_ErrorReportsFailingOffset ==
  \A k \in 1..Len(lexed) :
    lexed[k].thrown = "SyntaxError" =>
      /\ lexed[k].badTok.text =
           Slice(template[k], lexed[k].failedAt, Len(template[k]))
      /\ lexed[k].badTok.pos =
           Pos(k - 1, lexed[k].failedAt, Len(template[k]))

(***************************************************************************)
(* The Scanner's properties.                                               *)
(***************************************************************************)
\* where skipping from pos must stop: at the end of the stream, at a hole
\* marker, or at a token that is neither a whitespace run nor a line comment
StopsSkip(ts, p) == p = Len(ts) \/ ~IsSpaceOrComment(At(ts, p))

SkipTarget(ts, pos) ==
  CHOOSE p \in pos..Len(ts) :
    StopsSkip(ts, p) /\ \A q \in pos..(p - 1) : ~StopsSkip(ts, q)

\* text equals patt (a string), or fully matches patt (a regex)
PattAccepts(patt, text) ==
  IF patt.type = "string" THEN patt.text = text
  ELSE MatchEnd(patt.name, text, 0) = Len(text)

\* C9: eat(pos, patt) skips first; with p the position after skipping it
\* returns (p+1, text of element p) exactly when element p exists, is a Token
\* and its text equals or fully matches patt, and (p, FAIL) in every other
\* case, the end of the stream and a hole marker at p included.
C9_EatAfterSkip ==
  last.op = "eat" =>
    LET p == SkipTarget(toks, last.pos) IN
    /\ last.thrown = ""
    /\ IF /\ p < Len(toks)
          /\ IsToken(At(toks, p))
          /\ PattAccepts(last.key, At(toks, p).text)
         THEN last.newPos = p + 1 /\ last.value = Str(At(toks, p).text)
         ELSE last.newPos = p /\ last.value = FAIL

C9_Witness ==
  /\ last.op = "eat"
  /\ last.key.type = "regex"
  /\ last.value # FAIL
  /\ last.newPos > last.pos + 1
  /\ counts.hits > 0

\* C10: rule_SKIP(pos) never fails and never raises: it returns (p, "") with
\* p the smallest index >= pos that is the end of the stream, a hole marker,
\* or a token that is neither a whitespace run nor a line comment.
C10_SkipStopsAtFirstRealElement ==
  last.op = "rule_SKIP" =>
    /\ last.thrown = ""
    /\ last.value = Str(<<>>)
    /\ last.newPos = SkipTarget(toks, last.pos)

C10_Witness ==
  /\ last.op = "rule_SKIP"
  /\ last.newPos >= last.pos + 2
  /\ last.newPos < Len(toks)
  /\ IsHole(At(toks, last.newPos))
  /\ counts.hits > 0

(***************************************************************************)
(* The Scanner's other terminal rules, as run invokes them.                *)
(***************************************************************************)
\* Mutant of HoleAt: the value is the index of the marker, not the marker.
HoleAtGivesIndex(ts, s) ==
  IF s.thrown # "" THEN s
  ELSE IF s.pos >= Len(ts) THEN Ret(s, s.pos, FAIL)
  ELSE IF At(ts, s.pos).type = "number" THEN Ret(s, s.pos + 1, Num(s.pos))
  ELSE Ret(s, s.pos, FAIL)

\* rule_HOLE(pos) after [pos] = this.rule_SKIP(pos)
HoleAt(ts, s) ==
  IF s.thrown # "" THEN s
  ELSE IF s.pos >= Len(ts) THEN Ret(s, s.pos, FAIL)
  ELSE IF At(ts, s.pos).type = "number"
    THEN Ret(s, s.pos + 1, Num(At(ts, s.pos).num))
    ELSE Ret(s, s.pos, FAIL)

rule_HOLE(M, ts, pos) == HoleAt(ts, rule_SKIP(M, ts, pos))

\* Mutant of EOFAt: the last element of the stream counts as its end.
EOFAtLastElement(ts, s) ==
  IF s.thrown # "" THEN s
  ELSE Ret(s, s.pos, IF s.pos + 1 >= Len(ts) THEN EOF ELSE FAIL)

\* rule_EOF(pos) after [pos] = this.rule_SKIP(pos)
EOFAt(ts, s) ==
  IF s.thrown # "" THEN s
  ELSE Ret(s, s.pos, IF s.pos >= Len(ts) THEN EOF ELSE FAIL)

rule_EOF(M, ts, pos) == EOFAt(ts, rule_SKIP(M, ts, pos))

\* Mutant of IdentAt: the reserved set is not asked.
IdentAtAnyIdent(ts, kw, s) ==
  IF s.thrown # "" THEN s
  ELSE IF s.pos >= Len(ts) THEN Ret(s, s.pos, FAIL)
  ELSE IF At(ts, s.pos).type = "number" THEN Ret(s, s.pos, FAIL)
  ELSE IF allRE("IDENT_RE", At(ts, s.pos).text)
    THEN Ret(s, s.pos + 1, Str(At(ts, s.pos).text))
    ELSE Ret(s, s.pos, FAIL)

\* rule_IDENT(pos) after [pos] = this.rule_SKIP(pos); kw is this.keywords
IdentAt(ts, kw, s) ==
  IF s.thrown # "" THEN s
  ELSE IF s.pos >= Len(ts) THEN Ret(s, s.pos, FAIL)
  ELSE IF At(ts, s.pos).type = "number" THEN Ret(s, s.pos, FAIL)
  ELSE IF allRE("IDENT_RE", At(ts, s.pos).text) /\ At(ts, s.pos).text \notin kw
    THEN Ret(s, s.pos + 1, Str(At(ts, s.pos).text))
    ELSE Ret(s, s.pos, FAIL)

rule_IDENT(M, ts, kw, pos) == IdentAt(ts, kw, rule_SKIP(M, ts, pos))

rule_NUMBER(M, ts, pos) == eat(M, ts, pos, RegexKey("NUMBER_RE"))
rule_STRING(M, ts, pos) == eat(M, ts, pos, RegexKey("STRING_RE"))

\* the rule procedures of the Scanner that the model calls through run
ScannerRules == {"rule_SPACE", "rule_COMMENT", "rule_SKIP", "rule_NUMBER",
                 "rule_STRING", "rule_IDENT", "rule_HOLE", "rule_EOF"}

\* ruleOrPatt.call(this, pos) for a rule procedure of the Scanner
ScannerRule(name, M, ts, kw, pos) ==
  CASE name = "rule_SPACE" -> RetPair(M, rule_SPACE(ts, pos))
    [] name = "rule_COMMENT" -> RetPair(M, rule_COMMENT(ts, pos))
    [] name = "rule_SKIP" -> rule_SKIP(M, ts, pos)
    [] name = "rule_NUMBER" -> rule_NUMBER(M, ts, pos)
    [] name = "rule_STRING" -> rule_STRING(M, ts, pos)
    [] name = "rule_IDENT" -> rule_IDENT(M, ts, kw, pos)
    [] name = "rule_HOLE" -> rule_HOLE(M, ts, pos)
    [] name = "rule_EOF" -> rule_EOF(M, ts, pos)

(***************************************************************************)
(* The specification of the Scanner's rules: a Scanner constructed over a  *)
(* template that lexes and a tokenTypeList, and any one rule of it called  *)
(* directly on the new Scanner, at any position of the stream.             *)
(***************************************************************************)
\* the tokenTypeLists the Scanner is constructed with
TokenTypeLists == {{}, {<<"a">>, <<"1">>}}
\* the regular expressions skip is called with
SkipREs == {"SPACE_RE", "NUMBER_RE"}

RulesInit ==
  /\ Constructed(ScanChars, MaxTplLen, MaxSegs)
  /\ grammar = <<>>
  /\ \E ttl \in TokenTypeLists : keywords = KeywordsOf(ttl)

CallRule ==
  /\ phase = "ready" /\ calls = 0
  /\ \E pos \in 0..Len(toks) : \E name \in ScannerRules :
       \E R \in {ScannerRule(name, CurM, toks, keywords, pos)} :
         Completed(name, NoKey, pos, R)

CallSkipRE ==
  /\ phase = "ready" /\ calls = 0
  /\ \E pos \in 0..Len(toks) : \E RE \in SkipREs :
       \E R \in {RetPair(CurM, skip(toks, pos, RE))} :
         Completed("skip", RegexKey(RE), pos, R)

CallEatOnce ==
  /\ phase = "ready" /\ calls = 0
  /\ \E pos \in 0..Len(toks) : \E patt \in EatPatts :
       \E R \in {eat(CurM, toks, pos, patt)} :
         Completed("eat", patt, pos, R)

RulesNext == CallRule \/ CallSkipRE \/ CallEatOnce

SpecRules == RulesInit /\ [][RulesNext]_vars

(***************************************************************************)
(* Grammars.  The rule procedures of a parser are compiled from a grammar  *)
(* of productions Name ::= body, a body being an ordered choice of         *)
(* sequences of literals and rule names (compare the microses grammar);    *)
(* each compiled rule reaches its literals and rules through run.          *)
(***************************************************************************)
Lit(text) == [op |-> "lit", name |-> "", text |-> text, args |-> <<>>]
Ref(name) == [op |-> "ref", name |-> name, text |-> <<>>, args |-> <<>>]
Seq2(a, b) == [op |-> "seq", name |-> "", text |-> <<>>, args |-> <<a, b>>]
Seq3(a, b, c) == [op |-> "seq", name |-> "", text |-> <<>>, args |-> <<a, b, c>>]
Or2(a, b) == [op |-> "or", name |-> "", text |-> <<>>, args |-> <<a, b>>]

SepStar(a, b) == [op |-> "sep", name |-> "", text |-> <<>>, args |-> <<a, b>>]

X == Lit(<<"x">>)
COMMA == Lit(<<",">>)

\* A ::= A "x" / "x" ;
GrammarLeft ==
  [start |-> "rule_A",
   rules |-> [rule_A |-> Or2(Seq2(Ref("rule_A"), X), X)]]
\* A ::= "x" / A "," ;
GrammarLeftLater ==
  [start |-> "rule_A",
   rules |-> [rule_A |-> Or2(X, Seq2(Ref("rule_A"), COMMA))]]
\* A ::= B "," / "x" ;  B ::= "," / A ;
GrammarIndirect ==
  [start |-> "rule_A",
   rules |-> [rule_A |-> Or2(Seq2(Ref("rule_B"), COMMA), X),
              rule_B |-> Or2(COMMA, Ref("rule_A"))]]
\* S ::= E "," S / E ;  E ::= "x" ;
GrammarList ==
  [start |-> "rule_S",
   rules |-> [rule_S |-> Or2(Seq3(Ref("rule_E"), COMMA, Ref("rule_S")),
                             Ref("rule_E")),
              rule_E |-> X]]
\* S ::= "x" M / "," EOF ;  with no production for M
GrammarMissing ==
  [start |-> "rule_S",
   rules |-> [rule_S |-> Or2(Seq2(X, Ref("rule_M")),
                             Seq2(COMMA, Ref("rule_EOF")))]]

\* L ::= "x" ** "," ;
GrammarSep ==
  [start |-> "rule_L",
   rules |-> [rule_L |-> SepStar(X, COMMA)]]

Grammars == {GrammarLeft, GrammarLeftLater, GrammarIndirect, GrammarList,
             GrammarMissing, GrammarSep}

\* the literals of a body
RECURSIVE Literals(_)
Literals(e) ==
  IF e.op = "lit" THEN {StringKey(e.text)}
  ELSE IF e.op = "ref" THEN {}
  ELSE UNION {Literals(e.args[i]) : i \in 1..Len(e.args)}

\* the tokenTypeList a compiled parser hands to the Scanner: the literals
\* of its grammar
TokenTypeList(g) ==
  {k.text : k \in UNION {Literals(g.rules[n]) : n \in DOMAIN g.rules}}

\* this.rule_N, the first argument of run: a rule procedure of the grammar
\* or of the Scanner, or undefined
RuleKey(g, name) ==
  IF name \in DOMAIN g.rules \cup ScannerRules THEN FunctionKey(name)
  ELSE UndefinedKey

\* How a compiled body goes on with expression e at pos: a literal or a
\* rule name is a call of run, a choice or a sequence is evaluated in place.
Start(g, e, pos) ==
  CASE e.op = "lit" ->
         [op |-> "run", key |-> StringKey(e.text), pos |-> pos, name |-> "literal"]
    [] e.op = "ref" ->
         [op |-> "run", key |-> RuleKey(g, e.name), pos |-> pos, name |-> e.name]
    [] OTHER -> [op |-> "eval", e |-> e, pos |-> pos]

Returning(pos, value) == [op |-> "ret", pos |-> pos, value |-> value]

(***************************************************************************)
(* The parser's specification: a parser compiled from one of the grammars  *)
(* over a template that lexes, its start rule run MaxCalls times at any    *)
(* position.  ctl is the point the parse is at, stack the calls it is in.  *)
(***************************************************************************)
\* the characters the parser's templates are written in
ParseChars == {"x", ",", NL}

TopFrame(key, pos) == [f |-> "top", key |-> key, pos |-> pos]
RunFrame(key, pos) == [f |-> "run", key |-> key, pos |-> pos]
OrFrame(args, i, pos) == [f |-> "or", args |-> args, i |-> i, pos |-> pos]
SeqFrame(args, i, start, vals) ==
  [f |-> "seq", args |-> args, i |-> i, start |-> start, vals |-> vals]
\* a ** b in progress: the stage is the part awaited, pos the position after
\* the last element matched
SepFrame(args, stage, pos, vals) ==
  [f |-> "sep", args |-> args, stage |-> stage, pos |-> pos, vals |-> vals]
Top(st) == st[Len(st)]
Pop(st) == SubSeq(st, 1, Len(st) - 1)

ParseInit ==
  /\ Constructed(ParseChars, MaxTplLen, 1)
  /\ grammar \in Grammars
  /\ keywords = KeywordsOf(TokenTypeList(grammar))

\* the call leaves the parser as R has it and goes on at nextCtl, or the
\* error R carries leaves every call the parse is in
Goes(R, nextCtl, nextStack) ==
  /\ memo' = R.memo
  /\ counts' = R.counts
  /\ invoked' = R.invoked
  /\ IF R.thrown # ""
       THEN /\ ctl' = Idle
            /\ stack' = <<>>
            /\ last' = [op |-> "run", key |-> stack[1].key, pos |-> stack[1].pos,
                        thrown |-> R.thrown, newPos |-> 0, value |-> NoValue]
            /\ calls' = calls + 1
            /\ raised' = TRUE
       ELSE /\ ctl' = nextCtl
            /\ stack' = nextStack
            /\ UNCHANGED <<last, calls, raised>>
  /\ UNCHANGED <<template, segnum, toks, lexed, phase, grammar, keywords>>

\* a step of a compiled rule body: the memo is not touched
Steps(nextCtl, nextStack) ==
  /\ ctl' = nextCtl
  /\ stack' = nextStack
  /\ UNCHANGED <<template, segnum, toks, lexed, phase, grammar, keywords,
                 memo, counts, invoked, last, calls, raised>>

\* parser.run(parser.rule_Start, pos, name) called from outside
TopRun ==
  /\ phase = "ready" /\ ctl.op = "idle" /\ calls < MaxCalls
  /\ \E pos \in 0..Len(toks) :
       Steps(Start(grammar, Ref(grammar.start), pos),
             <<TopFrame(FunctionKey(grammar.start), pos)>>)

\* run: if (result) { ... this._counts.hits++ } return result
RunHitStep ==
  /\ ctl.op = "run"
  /\ RunLookup(memo, ctl.key, ctl.pos) = "hit"
  /\ \E R \in {RunHit(CurM, ctl.key, ctl.pos)} :
       Goes(R, Returning(R.pos, R.value), stack)

\* run: if (result === LEFT_RECUR) throw
RunLeftRecurStep ==
  /\ ctl.op = "run"
  /\ RunLookup(memo, ctl.key, ctl.pos) = "left_recur"
  /\ Goes(Throw(CurM, "Left recursion on rule: " \o ctl.name), ctl, stack)

\* Mutant of RunMissingStep: the error is thrown before the probe is set.
RunMissingStepNoProbe ==
  /\ ctl.op = "run"
  /\ RunLookup(memo, ctl.key, ctl.pos) = "miss"
  /\ ctl.key.type = "undefined"
  /\ Goes(Throw(CurM, "Rule missing: " \o ctl.name), ctl, stack)

\* run: the probe, then ruleOrPatt === void 0: throw
RunMissingStep ==
  /\ ctl.op = "run"
  /\ RunLookup(memo, ctl.key, ctl.pos) = "miss"
  /\ ctl.key.type = "undefined"
  /\ Goes(Throw(RunProbe(CurM, ctl.key, ctl.pos), "Rule missing: " \o ctl.name),
          ctl, stack)

\* the probe and the history entry of the invocation that follows it
Probed(M, key, pos) ==
  [RunProbe(M, key, pos) EXCEPT !.invoked = Invoke(@, key, pos)]

\* run: the probe, result = this.eat(pos, ruleOrPatt), posm.set
RunEatStep ==
  /\ ctl.op = "run"
  /\ RunLookup(memo, ctl.key, ctl.pos) = "miss"
  /\ ctl.key.type \in {"string", "regex"}
  /\ \E R \in {RunStore(eat(Probed(CurM, ctl.key, ctl.pos), toks, ctl.pos,
                            ctl.key),
                        ctl.key, ctl.pos)} :
       Goes(R, Returning(R.pos, R.value), stack)

\* run: the probe, result = ruleOrPatt.call(this, pos) for a rule of the
\* Scanner, posm.set
RunScannerRuleStep ==
  /\ ctl.op = "run"
  /\ RunLookup(memo, ctl.key, ctl.pos) = "miss"
  /\ ctl.key.type = "function" /\ ctl.key.name \in ScannerRules
  /\ \E R \in {RunStore(ScannerRule(ctl.key.name,
                                    Probed(CurM, ctl.key, ctl.pos), toks,
                                    keywords, ctl.pos),
                        ctl.key, ctl.pos)} :
       Goes(R, Returning(R.pos, R.value), stack)

\* run: the probe, then ruleOrPatt.call(this, pos) enters a compiled rule
RunRuleStep ==
  /\ ctl.op = "run"
  /\ RunLookup(memo, ctl.key, ctl.pos) = "miss"
  /\ ctl.key.type = "function" /\ ctl.key.name \in DOMAIN grammar.rules
  /\ Goes(Ret(Probed(CurM, ctl.key, ctl.pos), ctl.pos, NoValue),
          Start(grammar, grammar.rules[ctl.key.name], ctl.pos),
          Append(stack, RunFrame(ctl.key, ctl.pos)))

\* run: the compiled rule returned: posm.set(ruleOrPatt, result); return
RunStoreStep ==
  /\ ctl.op = "ret"
  /\ Top(stack).f = "run"
  /\ \E R \in {RunStore(Ret(CurM, ctl.pos, ctl.value), Top(stack).key,
                        Top(stack).pos)} :
       Goes(R, ctl, Pop(stack))

\* a compiled body enters an ordered choice, a separated repetition or a
\* sequence
EvalStep ==
  /\ ctl.op = "eval"
  /\ IF ctl.e.op = "or"
       THEN Steps(Start(grammar, ctl.e.args[1], ctl.pos),
                  Append(stack, OrFrame(ctl.e.args, 1, ctl.pos)))
     ELSE IF ctl.e.op = "sep"
       THEN Steps(Start(grammar, ctl.e.args[1], ctl.pos),
                  Append(stack, SepFrame(ctl.e.args, "a", ctl.pos, <<>>)))
       ELSE Steps(Start(grammar, ctl.e.args[1], ctl.pos),
                  Append(stack, SeqFrame(ctl.e.args, 1, ctl.pos, <<>>)))

\* Mutant of SepStep: a separator that matched stays consumed.
SepStepKeepsSeparator ==
  /\ ctl.op = "ret"
  /\ Top(stack).f = "sep"
  /\ \E fr \in {Top(stack)} :
       IF ctl.value = FAIL
         THEN Steps(Returning(fr.pos, Arr(fr.vals)), Pop(stack))
       ELSE IF fr.stage = "a"
         THEN Steps(Start(grammar, fr.args[2], ctl.pos),
                    Append(Pop(stack),
                           SepFrame(fr.args, "sep", ctl.pos,
                                    Append(fr.vals, ctl.value))))
         ELSE Steps(Start(grammar, fr.args[1], ctl.pos),
                    Append(Pop(stack),
                           SepFrame(fr.args, "a", ctl.pos, fr.vals)))

\* an element or a separator of a ** b returned: a FAIL ends the repetition
\* at the position after the last element, with the elements matched so far
SepStep ==
  /\ ctl.op = "ret"
  /\ Top(stack).f = "sep"
  /\ \E fr \in {Top(stack)} :
       IF ctl.value = FAIL
         THEN Steps(Returning(fr.pos, Arr(fr.vals)), Pop(stack))
       ELSE IF fr.stage = "a"
         THEN Steps(Start(grammar, fr.args[2], ctl.pos),
                    Append(Pop(stack),
                           SepFrame(fr.args, "sep", ctl.pos,
                                    Append(fr.vals, ctl.value))))
         ELSE Steps(Start(grammar, fr.args[1], ctl.pos),
                    Append(Pop(stack),
                           SepFrame(fr.args, "a", fr.pos, fr.vals)))

\* Mutant of OrStep: every alternative is tried, the last one wins.
OrStepTriesAll ==
  /\ ctl.op = "ret"
  /\ Top(stack).f = "or"
  /\ \E fr \in {Top(stack)} :
       IF fr.i = Len(fr.args)
         THEN Steps(ctl, Pop(stack))
         ELSE Steps(Start(grammar, fr.args[fr.i + 1], fr.pos),
                    Append(Pop(stack), OrFrame(fr.args, fr.i + 1, fr.pos)))

\* an alternative of an ordered choice returned: the first that does not
\* fail is the choice's result, else the next one is tried from the start
OrStep ==
  /\ ctl.op = "ret"
  /\ Top(stack).f = "or"
  /\ \E fr \in {Top(stack)} :
       IF ctl.value # FAIL \/ fr.i = Len(fr.args)
         THEN Steps(ctl, Pop(stack))
         ELSE Steps(Start(grammar, fr.args[fr.i + 1], fr.pos),
                    Append(Pop(stack), OrFrame(fr.args, fr.i + 1, fr.pos)))

\* an element of a sequence returned: a failure fails the sequence at the
\* position it started from, the last element completes it
SeqStep ==
  /\ ctl.op = "ret"
  /\ Top(stack).f = "seq"
  /\ \E fr \in {Top(stack)} :
       IF ctl.value = FAIL
         THEN Steps(Returning(fr.start, FAIL), Pop(stack))
       ELSE IF fr.i = Len(fr.args)
         THEN Steps(Returning(ctl.pos, Arr(Append(fr.vals, ctl.value))),
                    Pop(stack))
         ELSE Steps(Start(grammar, fr.args[fr.i + 1], ctl.pos),
                    Append(Pop(stack),
                           SeqFrame(fr.args, fr.i + 1, fr.start,
                                    Append(fr.vals, ctl.value))))

\* the run called from outside returned
TopReturn ==
  /\ ctl.op = "ret"
  /\ Top(stack).f = "top"
  /\ ctl' = Idle
  /\ stack' = <<>>
  /\ last' = [op |-> "run", key |-> Top(stack).key, pos |-> Top(stack).pos,
              thrown |-> "", newPos |-> ctl.pos, value |-> ctl.value]
  /\ calls' = calls + 1
  /\ UNCHANGED <<template, segnum, toks, lexed, phase, grammar, keywords,
                 memo, counts, invoked, raised>>

\* Mutant of FailStep: a failure further on does not move maxPos.
FailStepKeepsFirst(m, pk, acc) ==
  IF pk[2].type # "function" /\ ~m[pk].lr
    THEN IF m[pk].value = FAIL
      THEN IF m[pk].newPos > acc.maxPos /\ acc.fails = <<>>
             THEN [maxPos |-> m[pk].newPos, fails |-> <<pk[2]>>]
           ELSE IF m[pk].newPos = acc.maxPos
             THEN [acc EXCEPT !.fails = Append(@, pk[2])]
             ELSE acc
      ELSE acc
    ELSE acc

\* Mutant of FailStep: a failure at maxPos is not added to the names.
FailStepDropsTies(m, pk, acc) ==
  IF pk[2].type # "function" /\ ~m[pk].lr
    THEN IF m[pk].value = FAIL /\ m[pk].newPos > acc.maxPos
      THEN [maxPos |-> m[pk].newPos, fails |-> <<pk[2]>>]
      ELSE acc
    ELSE acc

\* Packratter.lastFailures(), the entries of the memo taken one by one
FailStep(m, pk, acc) ==
  IF pk[2].type # "function" /\ ~m[pk].lr
    THEN IF m[pk].value = FAIL
      THEN IF m[pk].newPos > acc.maxPos
             THEN [maxPos |-> m[pk].newPos, fails |-> <<pk[2]>>]
           ELSE IF m[pk].newPos = acc.maxPos
             THEN [acc EXCEPT !.fails = Append(@, pk[2])]
             ELSE acc
      ELSE acc
    ELSE acc

RECURSIVE FailuresLoop(_, _, _)
FailuresLoop(m, todo, acc) ==
  IF todo = {} THEN acc
  ELSE FailuresLoop(m, todo \ {CHOOSE pk \in todo : TRUE},
                    FailStep(m, CHOOSE pk \in todo : TRUE, acc))

lastFailures(m) == FailuresLoop(m, DOMAIN m, [maxPos |-> 0, fails |-> <<>>])

\* this.toks[i]: an index outside the array gives undefined
Absent == [type |-> "undefined"]
ElementAt(ts, i) == IF i \in 0..(Len(ts) - 1) THEN At(ts, i) ELSE Absent

\* syntaxError() with [last, fails] = lf: the SyntaxError it throws, by the
\* parts of its message
SyntaxErrorOf(ts, lf) ==
  [eof |-> ~(lf.maxPos < Len(ts)),
   named |-> IF lf.maxPos < Len(ts) THEN ElementAt(ts, lf.maxPos)
             ELSE ElementAt(ts, Len(ts) - 1),
   stuck |-> Len(lf.fails) = 0,
   fails |-> lf.fails]

syntaxError(ts, m) == SyntaxErrorOf(ts, lastFailures(m))

\* parser.syntaxError() called from outside, after a parse; the error ends
\* the use of the parser
SyntaxErrorStep ==
  /\ phase = "ready" /\ ctl.op = "idle" /\ calls > 0
  /\ \E e \in {syntaxError(toks, memo)} :
       ctl' = [op |-> "raised", error |-> e]
  /\ raised' = TRUE
  /\ UNCHANGED <<template, segnum, toks, lexed, phase, grammar, keywords,
                 memo, counts, invoked, last, calls, stack>>

Next ==
  \/ TopRun
  \/ RunHitStep
  \/ RunLeftRecurStep
  \/ RunMissingStep
  \/ RunEatStep
  \/ RunScannerRuleStep
  \/ RunRuleStep
  \/ RunStoreStep
  \/ EvalStep
  \/ OrStep
  \/ SeqStep
  \/ SepStep
  \/ TopReturn
  \/ SyntaxErrorStep

Spec == ParseInit /\ [][Next]_vars


(***************************************************************************)
(* The start rule run with memoization disabled: every lookup is a miss,   *)
(* every rule and every eat is invoked directly.  busy holds the calls the *)
(* evaluation is in: entering one of them again never returns.             *)
(***************************************************************************)
NoMemo == [memo |-> <<>>, counts |-> [hits |-> 0, misses |-> 0], invoked |-> <<>>]
Plain(R) == [thrown |-> R.thrown, pos |-> R.pos, value |-> R.value]
Raised(error) == [thrown |-> error, pos |-> 0, value |-> NoValue]

RECURSIVE DirectRun(_, _, _, _, _)
RECURSIVE DirectOr(_, _, _, _, _, _)
RECURSIVE DirectSeq(_, _, _, _, _, _, _, _)
RECURSIVE DirectSep(_, _, _, _, _, _, _, _)

DirectExpr(g, ts, e, pos, busy) ==
  IF e.op = "lit" THEN DirectRun(g, ts, StringKey(e.text), pos, busy)
  ELSE IF e.op = "ref" THEN DirectRun(g, ts, RuleKey(g, e.name), pos, busy)
  ELSE IF e.op = "or" THEN DirectOr(g, ts, e.args, 1, pos, busy)
  ELSE IF e.op = "sep" THEN DirectSep(g, ts, e.args, "a", pos, pos, <<>>, busy)
  ELSE DirectSeq(g, ts, e.args, 1, pos, pos, <<>>, busy)

DirectRun(g, ts, key, pos, busy) ==
  IF key.type = "undefined" THEN Raised("Rule missing")
  ELSE IF key.type # "function" THEN Plain(eat(NoMemo, ts, pos, key))
  ELSE IF key.name \in ScannerRules
    THEN Plain(ScannerRule(key.name, NoMemo, ts,
                           KeywordsOf(TokenTypeList(g)), pos))
  ELSE IF <<pos, key>> \in busy THEN Raised("never returns")
  ELSE DirectExpr(g, ts, g.rules[key.name], pos, busy \cup {<<pos, key>>})

OrNext(g, ts, args, i, pos, busy, r) ==
  IF r.thrown # "" \/ r.value # FAIL \/ i = Len(args) THEN r
  ELSE DirectOr(g, ts, args, i + 1, pos, busy)

DirectOr(g, ts, args, i, pos, busy) ==
  OrNext(g, ts, args, i, pos, busy, DirectExpr(g, ts, args[i], pos, busy))

SeqNext(g, ts, args, i, start, vals, busy, r) ==
  IF r.thrown # "" THEN r
  ELSE IF r.value = FAIL THEN [thrown |-> "", pos |-> start, value |-> FAIL]
  ELSE IF i = Len(args)
    THEN [thrown |-> "", pos |-> r.pos, value |-> Arr(Append(vals, r.value))]
    ELSE DirectSeq(g, ts, args, i + 1, start, r.pos, Append(vals, r.value),
                   busy)

DirectSeq(g, ts, args, i, start, pos, vals, busy) ==
  SeqNext(g, ts, args, i, start, vals, busy,
          DirectExpr(g, ts, args[i], pos, busy))

SepNext(g, ts, args, stage, pos, vals, busy, r) ==
  IF r.thrown # "" THEN r
  ELSE IF r.value = FAIL
    THEN [thrown |-> "", pos |-> pos, value |-> Arr(vals)]
  ELSE IF stage = "a"
    THEN DirectSep(g, ts, args, "sep", r.pos, r.pos, Append(vals, r.value),
                   busy)
    ELSE DirectSep(g, ts, args, "a", pos, r.pos, vals, busy)

\* at is where the part awaited is tried, pos the position after the last
\* element
DirectSep(g, ts, args, stage, pos, at, vals, busy) ==
  SepNext(g, ts, args, stage, pos, vals, busy,
          DirectExpr(g, ts, IF stage = "a" THEN args[1] ELSE args[2], at,
                     busy))

(***************************************************************************)
(* The parser's properties.                                                *)
(***************************************************************************)
IsResult(m, pk) == pk \in DOMAIN m /\ ~m[pk].lr

InvokedOnce == \A pk \in DOMAIN invoked : invoked[pk] <= 1

HitReturnsStored ==
  (ctl.op = "run" /\ IsResult(memo, <<ctl.pos, ctl.key>>)) =>
    /\ ctl' = Returning(memo[<<ctl.pos, ctl.key>>].newPos,
                        memo[<<ctl.pos, ctl.key>>].value)
    /\ memo' = memo
    /\ invoked' = invoked
    /\ stack' = stack

StoredStays ==
  \A pk \in DOMAIN memo :
    ~memo[pk].lr => pk \in DOMAIN memo' /\ memo'[pk] = memo[pk]

ReturnStores ==
  (ctl.op = "ret" /\ Top(stack).f = "run") =>
    /\ <<Top(stack).pos, Top(stack).key>> \in DOMAIN memo'
    /\ memo'[<<Top(stack).pos, Top(stack).key>>] = Result(ctl.pos, ctl.value)

\* C1: within one parser, run invokes the rule procedure or eat at most once
\* for every (pos, ruleOrPatt); the run that returns stores its result, a
\* stored result is never replaced, and a run that finds a stored result
\* returns it, success or FAIL, without invoking anything and without
\* changing the memo.
C1_InvokedAtMostOnce ==
  /\ []InvokedOnce
  /\ [][HitReturnsStored]_vars
  /\ [][StoredStays]_vars
  /\ [][ReturnStores]_vars

\* C1 witness: a second run of the start rule at the position of a first one
\* that returned has just returned the stored FAIL, the rule invoked once.
C1_Witness ==
  /\ calls = 1 /\ ctl.op = "ret" /\ Len(stack) = 1
  /\ last.op = "run" /\ last.thrown = ""
  /\ last.pos = stack[1].pos /\ last.key = stack[1].key
  /\ ctl.value = FAIL /\ last.value = FAIL
  /\ invoked[<<last.pos, last.key>>] = 1

\* the names a compiled body begins with: what it calls at the position it
\* is entered at
RECURSIVE LeftNames(_)
LeftNames(e) ==
  IF e.op = "lit" THEN {}
  ELSE IF e.op = "ref" THEN {e.name}
  ELSE IF e.op \in {"seq", "sep"} THEN LeftNames(e.args[1])
  ELSE UNION {LeftNames(e.args[i]) : i \in 1..Len(e.args)}

LeftCalls(g, names) ==
  UNION {LeftNames(g.rules[n]) : n \in names \cap DOMAIN g.rules}

RECURSIVE LeftReach(_, _)
LeftReach(g, names) ==
  IF LeftCalls(g, names) \subseteq names THEN names
  ELSE LeftReach(g, names \cup LeftCalls(g, names))

\* the grammar has a direct or indirect left-recursive production
LeftRecursive(g) ==
  \E n \in DOMAIN g.rules : n \in LeftReach(g, LeftCalls(g, {n}))

\* the first alternative of the start rule begins with the start rule
LeftRecursiveAtOnce(g) ==
  g.rules[g.start].op = "or"
    /\ g.rules[g.start].args[1].op = "seq"
    /\ g.rules[g.start].args[1].args[1] = Ref(g.start)

ErrorNames == {"rule_A", "rule_B", "rule_S", "rule_E", "rule_M", "literal",
               "COMMENT"} \cup ScannerRules
IsLeftRecursionError(t) ==
  \E n \in ErrorNames : t = "Left recursion on rule: " \o n

RunFrames(st) == {i \in 1..Len(st) : st[i].f = "run"}

\* every rule the parse is in has its probe in the memo, and no (pos, rule)
\* is in progress twice
InProgressOnce ==
  \A i \in RunFrames(stack) :
    /\ <<stack[i].pos, stack[i].key>> \in DOMAIN memo
    /\ memo[<<stack[i].pos, stack[i].key>>].lr
    /\ \A j \in RunFrames(stack) :
         (stack[j].pos = stack[i].pos /\ stack[j].key = stack[i].key) => j = i

ReEnteredRaises ==
  (/\ ctl.op = "run"
   /\ <<ctl.pos, ctl.key>> \in DOMAIN memo
   /\ memo[<<ctl.pos, ctl.key>>].lr) =>
    /\ last'.thrown = "Left recursion on rule: " \o ctl.name
    /\ ctl' = Idle
    /\ stack' = <<>>
    /\ memo' = memo

AtOnceRaises ==
  (last.op = "run" /\ LeftRecursiveAtOnce(grammar)) =>
    IsLeftRecursionError(last.thrown)

\* the patterns and the rules a parser of grammar g can call run with
GrammarKeys(g) ==
  UNION {Literals(g.rules[n]) : n \in DOMAIN g.rules}
    \cup {FunctionKey(n) : n \in DOMAIN g.rules \cup ScannerRules}
    \cup {UndefinedKey}

\* every miss put a new (pos, rule) into the memo, and there are no more of
\* them than positions of the stream times rules and patterns of the grammar
MissesBounded ==
  /\ counts.misses = Cardinality(DOMAIN memo)
  /\ \A pk \in DOMAIN memo :
       pk[1] \in 0..Len(toks) /\ pk[2] \in GrammarKeys(grammar)

\* C2 as stated: a parse with a grammar that has a direct or indirect
\* left-recursive production raises "Left recursion on rule".
C2_LeftRecursiveGrammarRaises ==
  (calls = 1 /\ last.op = "run" /\ last.pos = 0 /\ LeftRecursive(grammar)) =>
    IsLeftRecursionError(last.thrown)

\* C2: run raises "Left recursion on rule" as soon as it is entered for a
\* (pos, rule) whose entry in the memo is still the LEFT_RECUR probe, so no
\* (pos, rule) is in progress twice and the parse does not loop: the misses
\* of a parser never exceed the (pos, rule) pairs of its stream and grammar;
\* a grammar whose start rule begins its first alternative with itself
\* raises on every input, any other left-recursive grammar raises only when
\* the parse reaches the left-recursive call.
C2_ReEntryRaises ==
  /\ [][ReEnteredRaises]_vars
  /\ []InProgressOnce
  /\ []AtOnceRaises
  /\ []MissesBounded

\* C2 witness: the indirect left recursion A -> B -> A was reached and the
\* first parse of the parser raised the error.
C2_Witness ==
  /\ grammar = GrammarIndirect
  /\ calls = 1
  /\ last.op = "run"
  /\ IsLeftRecursionError(last.thrown)
  /\ \E pk \in DOMAIN memo : pk[2] = FunctionKey("rule_B") /\ memo[pk].lr

\* C3: when a run of the start rule returns, no error raised, the (newPos,
\* value) it returns is the one the start rule gives at that position with
\* memoization disabled, every rule and every eat invoked directly.
C3_MemoizedEqualsDirect ==
  (last.op = "run" /\ last.thrown = "") =>
    \E d \in {DirectRun(grammar, toks, last.key, last.pos, {})} :
      /\ d.thrown = ""
      /\ d.pos = last.newPos
      /\ d.value = last.value

\* C3 witness: S ::= E "," S / E parsed a stream of three tokens to its end:
\* the second alternative of the inner S took E from the memo.
C3_Witness ==
  /\ grammar = GrammarList
  /\ calls = 1
  /\ last.op = "run" /\ last.thrown = ""
  /\ last.pos = 0 /\ last.newPos = 3 /\ Len(toks) = 3
  /\ last.value.t = "array"
  /\ counts.hits > 0

FailedAt(m) == {pk \in DOMAIN m : ~m[pk].lr /\ m[pk].value = FAIL}
TerminalFailedAt(m) == {pk \in FailedAt(m) : pk[2].type # "function"}

\* C4 as stated: the position of lastFailures() is at least the newPos of
\* every FAIL in the memo, whatever key it is stored under.
C4_AtLeastEveryFailure ==
  \A pk \in FailedAt(memo) : lastFailures(memo).maxPos >= memo[pk].newPos

\* C4: at any time the position of lastFailures() is at least the newPos of
\* every FAIL stored in the memo under a terminal pattern (a key that is not
\* a rule procedure); it is the largest of them, 0 when there is none.
C4_AtLeastEveryTerminalFailure ==
  \E lf \in {lastFailures(memo)} :
    /\ \A pk \in TerminalFailedAt(memo) : lf.maxPos >= memo[pk].newPos
    /\ \/ lf.maxPos = 0
       \/ \E pk \in TerminalFailedAt(memo) : lf.maxPos = memo[pk].newPos

\* C4 witness: terminal patterns failed at two positions, lastFailures()
\* gives the later one, and a rule procedure failed as well.
C4_Witness ==
  /\ \E pk \in TerminalFailedAt(memo) : memo[pk].newPos = 0
  /\ \E pk \in TerminalFailedAt(memo) : memo[pk].newPos >= 2
  /\ FailedAt(memo) # TerminalFailedAt(memo)
  /\ lastFailures(memo).maxPos >= 2

(***************************************************************************)
(* The properties of the Scanner's rules.                                  *)
(***************************************************************************)
IsIdentText(text) == MatchEnd("IDENT_RE", text, 0) = Len(text)

\* the tokenTypeLists the Scanner's reserved set can have come from
GivenLists ==
  {ttl \in TokenTypeLists :
     /\ keywords \subseteq ttl
     /\ \A tt \in ttl : tt \in keywords <=> IsIdentText(tt)}

\* C11: rule_IDENT never accepts a reserved keyword: whatever tokenTypeList
\* the Scanner was given, it returns (p+1, text) iff the element p reached
\* after SKIP is a Token whose text fully matches the identifier regex and is
\* not an entry of the tokenTypeList that is a valid identifier, and (p, FAIL)
\* otherwise.
C11_IdentRejectsKeywords ==
  /\ GivenLists # {}
  /\ last.op = "rule_IDENT" =>
       \A ttl \in GivenLists :
         LET p == SkipTarget(toks, last.pos) IN
         /\ last.thrown = ""
         /\ IF /\ p < Len(toks)
               /\ IsToken(At(toks, p))
               /\ IsIdentText(At(toks, p).text)
               /\ ~(At(toks, p).text \in ttl /\ IsIdentText(At(toks, p).text))
              THEN last.newPos = p + 1 /\ last.value = Str(At(toks, p).text)
              ELSE last.newPos = p /\ last.value = FAIL

\* C11 witness: rule_IDENT skipped to an identifier token that is a keyword
\* of the Scanner and returned FAIL there.
C11_Witness ==
  /\ last.op = "rule_IDENT"
  /\ last.value = FAIL
  /\ last.newPos > last.pos
  /\ last.newPos < Len(toks)
  /\ IsToken(At(toks, last.newPos))
  /\ At(toks, last.newPos).text \in keywords

\* the terminal rules other than rule_HOLE
OtherRules == {"skip", "eat", "rule_NUMBER", "rule_STRING", "rule_IDENT",
               "rule_SPACE", "rule_COMMENT", "rule_SKIP", "rule_EOF"}

\* C12: rule_HOLE(pos) succeeds iff the first element at or after pos that is
\* not a whitespace or comment token is a hole marker k, and then returns
\* (index of the marker + 1, k); in every other case it returns FAIL; no
\* other terminal rule returns a position past a hole marker.
C12_HoleOnlyByRuleHole ==
  /\ last.op = "rule_HOLE" =>
       LET p == SkipTarget(toks, last.pos) IN
       /\ last.thrown = ""
       /\ IF p < Len(toks) /\ IsHole(At(toks, p))
            THEN last.newPos = p + 1 /\ last.value = Num(At(toks, p).num)
            ELSE last.value = FAIL
  /\ last.op \in OtherRules =>
       \A h \in HoleIndexes(toks) : ~(last.pos < h /\ h <= last.newPos)

\* C12 witness: rule_HOLE skipped whitespace or comments and took the hole
\* marker that follows them.
C12_Witness ==
  /\ last.op = "rule_HOLE"
  /\ last.value # FAIL
  /\ last.newPos >= last.pos + 2
  /\ last.value = Num(At(toks, last.newPos - 1).num)

\* C13: rule_EOF(pos) succeeds with the EOF sentinel iff every element of the
\* stream at an index >= pos is a whitespace or comment token; if a real token
\* or a hole marker remains at or after pos it returns FAIL.
C13_EOFOnlyAtEnd ==
  last.op = "rule_EOF" =>
    /\ last.thrown = ""
    /\ last.value \in {EOF, FAIL}
    /\ last.value = EOF <=>
         \A i \in last.pos..(Len(toks) - 1) : IsSpaceOrComment(At(toks, i))
    /\ last.value = EOF => last.newPos = Len(toks)

\* C13 witness: rule_EOF succeeded before the end of the stream, what was
\* left being whitespace or comments, on a stream that has a real element.
C13_Witness ==
  /\ last.op = "rule_EOF"
  /\ last.value = EOF
  /\ last.pos > 0 /\ last.pos < Len(toks)
  /\ ~IsSpaceOrComment(At(toks, last.pos - 1))

\* C14 as stated, for a syntaxError() that follows a parse which returned
\* FAIL: the error names a Token: the element at index last of the stream
\* when last is less than its length, the final Token of the stream
\* otherwise; and it lists the failure set.
C14_SyntaxErrorNamesToken ==
  (ctl.op = "raised" /\ last.thrown = "" /\ last.value = FAIL) =>
    /\ ctl.error.named.type = "Token"
    /\ ctl.error.fails = lastFailures(memo).fails
    /\ IF lastFailures(memo).maxPos < Len(toks)
         THEN ctl.error.named = At(toks, lastFailures(memo).maxPos)
         ELSE ctl.error.named = toks[Len(toks)]

\* an alternative that does not fail is the result of its choice
OrFirstWins ==
  (ctl.op = "ret" /\ Top(stack).f = "or" /\ ctl.value # FAIL) =>
    ctl' = ctl /\ stack' = Pop(stack)

\* a later alternative is begun only when the one before it returned FAIL,
\* and from the position the choice was entered at
OrNextAfterFail ==
  (/\ stack' # <<>>
   /\ Top(stack').f = "or"
   /\ Top(stack').i > 1
   /\ Len(stack') = Len(stack)
   /\ stack' # stack) =>
    /\ ctl.op = "ret" /\ ctl.value = FAIL
    /\ Top(stack).f = "or"
    /\ Top(stack').i = Top(stack).i + 1
    /\ ctl' = Start(grammar, Top(stack).args[Top(stack).i + 1], Top(stack).pos)

FirstAlt(g, key) == g.rules[key.name].args[1]
SecondAlt(g, key) == g.rules[key.name].args[2]
BothMatch(g, ts, key, pos) ==
  /\ g.rules[key.name].op = "or"
  /\ \E a \in {DirectExpr(g, ts, FirstAlt(g, key), pos, {<<pos, key>>})} :
       a.thrown = "" /\ a.value # FAIL
  /\ \E b \in {DirectExpr(g, ts, SecondAlt(g, key), pos, {<<pos, key>>})} :
       b.thrown = "" /\ b.value # FAIL

\* a rule A / B run where both alternatives match gives what A gives
ChoiceIsFirst ==
  (/\ last.op = "run" /\ last.thrown = ""
   /\ BothMatch(grammar, toks, last.key, last.pos)) =>
    \E a \in {DirectExpr(grammar, toks, FirstAlt(grammar, last.key), last.pos,
                         {<<last.pos, last.key>>})} :
      last.newPos = a.pos /\ last.value = a.value

\* C15: ordered choice: a body A / B run at a position where both
\* alternatives can match gives the result of A; the alternatives are tried
\* in source order, the first that does not return FAIL wins, and B is tried
\* only after A returned FAIL at that position.
C15_OrderedChoice ==
  /\ []ChoiceIsFirst
  /\ [][OrFirstWins]_vars
  /\ [][OrNextAfterFail]_vars

\* C15 witness: S ::= E "," S / E was run where E "," S and E both match and
\* end at different positions, and gave what E "," S gives.
C15_Witness ==
  /\ grammar = GrammarList
  /\ last.op = "run" /\ last.thrown = ""
  /\ BothMatch(grammar, toks, last.key, last.pos)
  /\ \E b \in {DirectExpr(grammar, toks, SecondAlt(grammar, last.key),
                          last.pos, {<<last.pos, last.key>>})} :
       b.pos # last.newPos

\* after the whitespace from pos on comes a token of the given text
TokenIs(ts, pos, text) ==
  /\ SkipTarget(ts, pos) < Len(ts)
  /\ IsToken(At(ts, SkipTarget(ts, pos)))
  /\ At(ts, SkipTarget(ts, pos)).text = text
After(ts, pos) == SkipTarget(ts, pos) + 1

\* the elements "x" separated by "," that begin at pos: the position after
\* the last of them, and how many they are
RECURSIVE MoreEnd(_, _)
MoreEnd(ts, after) ==
  IF TokenIs(ts, after, <<",">>) /\ TokenIs(ts, After(ts, after), <<"x">>)
    THEN MoreEnd(ts, After(ts, After(ts, after)))
    ELSE after
ListEnd(ts, pos) ==
  IF TokenIs(ts, pos, <<"x">>) THEN MoreEnd(ts, After(ts, pos)) ELSE pos

RECURSIVE MoreCount(_, _)
MoreCount(ts, after) ==
  IF TokenIs(ts, after, <<",">>) /\ TokenIs(ts, After(ts, after), <<"x">>)
    THEN 1 + MoreCount(ts, After(ts, After(ts, after)))
    ELSE 0
ListCount(ts, pos) ==
  IF TokenIs(ts, pos, <<"x">>) THEN 1 + MoreCount(ts, After(ts, pos)) ELSE 0

\* C16: a ** sep consumes sep only between two matched elements: the
\* position it returns is the position after the last matched a, a separator
\* that no matching a follows is left unconsumed, and zero elements is a
\* success that consumes nothing.
C16_SeparatorOnlyBetween ==
  (grammar = GrammarSep /\ last.op = "run") =>
    /\ last.thrown = ""
    /\ last.value.t = "array"
    /\ last.newPos = ListEnd(toks, last.pos)
    /\ Len(last.value.items) = ListCount(toks, last.pos)
    /\ \A i \in 1..Len(last.value.items) : last.value.items[i] = Str(<<"x">>)
    /\ ListCount(toks, last.pos) = 0 => last.newPos = last.pos

\* C16 witness: "x" ** "," matched an element and stopped before a
\* separator that no "x" follows.
C16_Witness ==
  /\ grammar = GrammarSep /\ last.op = "run" /\ last.thrown = ""
  /\ Len(last.value.items) >= 1
  /\ TokenIs(toks, last.newPos, <<",">>)

\* the terminal failures at the position p
TerminalFailedTo(m, p) == {pk \in TerminalFailedAt(m) : m[pk].newPos = p}

\* C17: lastFailures() returns (maxPos, fails) where, over the memo entries
\* whose key is a terminal pattern and whose value is a FAIL result, maxPos
\* is the largest newPos (0 when there is none) and fails has exactly one
\* name for each such entry whose newPos is maxPos; entries under rule
\* procedures and entries still LEFT_RECUR contribute nothing.
C17_LastFailuresExact ==
  \E lf \in {lastFailures(memo)} :
    /\ \A pk \in TerminalFailedAt(memo) : memo[pk].newPos <= lf.maxPos
    /\ lf.maxPos # 0 => TerminalFailedTo(memo, lf.maxPos) # {}
    /\ Len(lf.fails) = Cardinality(TerminalFailedTo(memo, lf.maxPos))
    /\ \A i \in 1..Len(lf.fails) :
         Cardinality({j \in 1..Len(lf.fails) : lf.fails[j] = lf.fails[i]})
           = Cardinality({pk \in TerminalFailedTo(memo, lf.maxPos) :
                            pk[2] = lf.fails[i]})

\* C17 witness: two terminal failures at maxPos, one before it, a failure
\* under a rule procedure and a LEFT_RECUR entry, all in the memo.
C17_Witness ==
  /\ Len(lastFailures(memo).fails) >= 2
  /\ lastFailures(memo).maxPos >= 1
  /\ \E pk \in TerminalFailedAt(memo) :
       memo[pk].newPos < lastFailures(memo).maxPos
  /\ \E pk \in FailedAt(memo) : pk[2].type = "function"
  /\ \E pk \in DOMAIN memo : memo[pk].lr

RunsUndefined == ctl.op = "run" /\ ctl.key.type = "undefined"

\* C18 as stated: every call of run whose ruleOrPatt is undefined raises
\* "Rule missing: name", whatever run calls came before it.
C18_UndefinedRaisesRuleMissing ==
  [][RunsUndefined => last'.thrown = "Rule missing: " \o ctl.name]_vars

UndefinedRaises ==
  RunsUndefined =>
    /\ ctl' = Idle /\ stack' = <<>> /\ raised'
    /\ last'.thrown =
         IF <<ctl.pos, ctl.key>> \in DOMAIN memo
           THEN "Left recursion on rule: " \o ctl.name
           ELSE "Rule missing: " \o ctl.name
    /\ <<ctl.pos, ctl.key>> \in DOMAIN memo'
    /\ memo'[<<ctl.pos, ctl.key>>].lr

UndefinedKeepsProbe ==
  \A pk \in DOMAIN memo : pk[2].type = "undefined" => memo[pk].lr

\* C18: every call of run whose ruleOrPatt is undefined raises an error and
\* leaves the LEFT_RECUR probe under (pos, undefined): "Rule missing: name"
\* when no run with an undefined rule was made at that position before on
\* the same parser, "Left recursion on rule: name" when one was.
C18_UndefinedRaises ==
  /\ [][UndefinedRaises]_vars
  /\ []UndefinedKeepsProbe

\* C18 witness: a second run with an undefined rule at the position of an
\* earlier one was made, and raised.
C18_Witness ==
  /\ grammar = GrammarMissing
  /\ calls = 2
  /\ last.thrown = "Left recursion on rule: rule_M"

Probes(m) == {pk \in DOMAIN m : m[pk].lr}
InProgress(st) == {<<st[i].pos, st[i].key>> : i \in RunFrames(st)}

\* while no error was raised the probes are the runs in progress, and none
\* is left when the parser is idle
ProbesAreInProgress ==
  ~raised => /\ Probes(memo) = InProgress(stack)
             /\ ctl.op = "idle" => Probes(memo) = {}

\* a first left-recursion error comes from a run entered again while it is
\* in progress
FirstErrorIsReEntry ==
  (~raised /\ IsLeftRecursionError(last'.thrown) /\ calls' = calls + 1) =>
    ctl.op = "run" /\ <<ctl.pos, ctl.key>> \in InProgress(stack)

\* an error leaves the probes of the runs it ends, and a probe that is not of
\* a run in progress is never overwritten
ProbesNotRepaired ==
  /\ (last'.thrown # "" /\ calls' = calls + 1) =>
       /\ InProgress(stack) # {} => Probes(memo') # {}
       /\ \A pk \in InProgress(stack) : pk \in Probes(memo')
  /\ \A pk \in Probes(memo) \ InProgress(stack) : pk \in Probes(memo')

\* C19: while no error has been raised, the memo entries holding LEFT_RECUR
\* are exactly the (pos, rule) of the run calls in progress, so none remains
\* after the top-level run returned, and a left-recursion error is raised
\* only when a (pos, rule) in progress is entered again; after a raised
\* error the probes are left in the memo.
C19_ProbesAreRunsInProgress ==
  /\ []ProbesAreInProgress
  /\ [][FirstErrorIsReEntry]_vars
  /\ [][ProbesNotRepaired]_vars

\* C19 witness: in the second parse of a parser that raised no error two
\* rules are in progress, one inside the other.
C19_Witness ==
  /\ ~raised
  /\ calls = 1
  /\ Cardinality(InProgress(stack)) >= 2
  /\ Probes(memo) = InProgress(stack)

\* the operations that test one element after the whitespace and comments
AfterSkipOps == {"eat", "rule_NUMBER", "rule_STRING", "rule_IDENT", "rule_HOLE"}
\* the operations that test the element at pos itself
AtPosOps == {"skip", "rule_SPACE", "rule_COMMENT"}

\* what a call returned is a position from pos up to the end of the stream
ForwardInRange ==
  calls > 0 =>
    /\ last.thrown = ""
    /\ last.pos \in 0..Len(toks)
    /\ last.newPos \in last.pos..Len(toks)

\* a success takes one element, after the whitespace and comments for the
\* operations that skip them; a failing skip returns pos
OneElement ==
  calls > 0 =>
    /\ (last.op \in AtPosOps /\ last.value # FAIL) => last.newPos = last.pos + 1
    /\ (last.op \in AtPosOps /\ last.value = FAIL) => last.newPos = last.pos
    /\ (last.op \in AfterSkipOps /\ last.value # FAIL) =>
         last.newPos = SkipTarget(toks, last.pos) + 1
    /\ (last.op \in AfterSkipOps \cup {"rule_SKIP", "rule_EOF"}
          /\ (last.value = FAIL \/ last.op \in {"rule_SKIP", "rule_EOF"})) =>
         last.newPos = SkipTarget(toks, last.pos)

\* C20: for every pos from 0 to the length of the stream, each of skip,
\* rule_SPACE, rule_COMMENT, rule_SKIP, eat, rule_NUMBER, rule_STRING,
\* rule_IDENT, rule_HOLE and rule_EOF returns a newPos from pos to the length
\* of the stream; a success of skip, eat, IDENT or HOLE takes exactly one
\* element beyond the skipped whitespace and comments, a FAIL of skip returns
\* pos, and none of them changes the token stream.
C20_PositionsForwardInRange ==
  /\ []ForwardInRange
  /\ []OneElement
  /\ [][toks' = toks]_vars

\* C20 witness: eat skipped whitespace or a comment and took the last element
\* of the stream.
C20_Witness ==
  /\ calls = 1
  /\ last.op = "eat"
  /\ last.value # FAIL
  /\ last.newPos = Len(toks)
  /\ last.newPos > last.pos + 1

====
